---- MODULE Spec2Model ----
(***************************************************************************)
(* ReceiptManager of core/primitives/src/receipt_manager.rs: the           *)
(* append-only list of pending action receipts built during one contract   *)
(* execution, and the gas_weights table of weighted function calls.        *)
(*                                                                         *)
(* Rust indices are 0-based (u64 / usize); TLA+ sequences are 1-based, so  *)
(* the receipt with index i is action_receipts[i + 1].                     *)
(***************************************************************************)
EXTENDS Integers, Naturals, Sequences, FiniteSets, TLC

\* seats is the call of get_num_seats_per_shard (core/primitives/src/utils.rs)
\* under study: its arguments and what it returned
VARIABLES action_receipts, gas_weights, result, created, appended, seats

vars == <<action_receipts, gas_weights, result, created, appended, seats>>

(***************************************************************************)
(* Bounds of the explored state space.                                     *)
(***************************************************************************)
\* what the manager may hold: a receipt and a data receiver weigh one, an
\* action (the kinds are many) weighs two
MaxSize == 5

\* the largest num_seats and num_shards handed to get_num_seats_per_shard
MaxSeats == 50

(***************************************************************************)
(* Inputs of the host calls.                                               *)
(***************************************************************************)
AccountIds == {"alice", "bob"}

\* the account named inside an action
BeneficiaryInputs == {"carol"}

\* "f" and a lone 0xFF byte
MethodNameInputs == {<<102>>, <<255>>}

MethodNamesInputs == {<<<<102>>>>, <<<<255>>, <<102>>>>, <<<<102>>, <<195>>>>}

ArgsInputs == {<<>>}

DepositInputs == {100}

GasInputs == {1000}

GasWeightInputs == {0, 5}

CodeInputs == {<<1>>}

NonceInputs == {7}

\* Option<u128>::None
AllowanceInputs == {[some |-> FALSE, value |-> 0]}

\* key data lengths of the two key types, scaled down from 32 and 64 bytes
ED25519KeyLen == 1
Secp256K1KeyLen == 2

KeyData(n) == [i \in 1 .. n |-> 10 + i]

\* borsh bytes of a public key: a key-type tag followed by the key data.
\* A well-formed key, a key with a trailing byte and an unknown key type.
PublicKeyInputs ==
    {<<0>> \o KeyData(ED25519KeyLen), <<0>> \o KeyData(ED25519KeyLen + 1),
     <<2>> \o KeyData(ED25519KeyLen)}

\* every existing index and the smallest index that names no receipt
ReceiptIndexInputs == 0 .. Len(action_receipts)

\* predecessors: also a second index that names no receipt
PredecessorIndexInputs == 0 .. (Len(action_receipts) + 1)

\* no predecessor, one, or two (the same one twice included)
PredecessorInputs ==
    {<<>>} \cup {<<i>> : i \in PredecessorIndexInputs}
           \cup {<<i, j>> : i, j \in PredecessorIndexInputs}

(***************************************************************************)
(* Data model.                                                             *)
(***************************************************************************)
\* CryptoHash::default(), the all-zero hash
CryptoHashDefault == 0

DataReceiver(data_id, receiver_id) ==
    [data_id |-> data_id, receiver_id |-> receiver_id]

ReceiptMetadata(output_data_receivers, input_data_ids, actions) ==
    [output_data_receivers |-> output_data_receivers,
     input_data_ids |-> input_data_ids,
     actions |-> actions]

\* one element of action_receipts: (AccountId, ReceiptMetadata)
ActionReceipt(receiver_id, metadata) ==
    [receiver_id |-> receiver_id, metadata |-> metadata]

FunctionCallActionIndex(receipt_index, action_index) ==
    [receipt_index |-> receipt_index, action_index |-> action_index]

GasWeightEntry(index, gas_weight) ==
    [index |-> index, gas_weight |-> gas_weight]

CreateAccountAction == [kind |-> "CreateAccount"]

DeployContractAction(code) == [kind |-> "DeployContract", code |-> code]

FunctionCallAction(method_name, args, gas, deposit) ==
    [kind |-> "FunctionCall", method_name |-> method_name, args |-> args,
     gas |-> gas, deposit |-> deposit]

TransferAction(deposit) == [kind |-> "Transfer", deposit |-> deposit]

StakeAction(stake, public_key) ==
    [kind |-> "Stake", stake |-> stake, public_key |-> public_key]

FullAccessPermission == [permission |-> "FullAccess"]

FunctionCallPermission(allowance, receiver_id, method_names) ==
    [permission |-> "FunctionCall", allowance |-> allowance,
     receiver_id |-> receiver_id, method_names |-> method_names]

AccessKey(nonce, permission) == [nonce |-> nonce, permission |-> permission]

AddKeyAction(public_key, access_key) ==
    [kind |-> "AddKey", public_key |-> public_key, access_key |-> access_key]

DeleteKeyAction(public_key) == [kind |-> "DeleteKey", public_key |-> public_key]

DeleteAccountAction(beneficiary_id) ==
    [kind |-> "DeleteAccount", beneficiary_id |-> beneficiary_id]

(***************************************************************************)
(* Decoders used by the append family.                                     *)
(***************************************************************************)
IsContinuation(b) == b >= 128 /\ b <= 191

\* length of the well-formed UTF-8 sequence that starts at bytes[i], or 0
Utf8CharLen(bytes, i) ==
    LET b == bytes[i]
        n == Len(bytes) - i
        second == IF n >= 1 THEN bytes[i + 1] ELSE 0
    IN  IF b < 128 THEN 1
        ELSE IF b >= 194 /\ b <= 223
        THEN IF n >= 1 /\ IsContinuation(second) THEN 2 ELSE 0
        ELSE IF b >= 224 /\ b <= 239
        THEN IF /\ n >= 2
                /\ IsContinuation(second)
                /\ (b = 224 => second >= 160)
                /\ (b = 237 => second <= 159)
                /\ IsContinuation(bytes[i + 2])
             THEN 3 ELSE 0
        ELSE IF b >= 240 /\ b <= 244
        THEN IF /\ n >= 3
                /\ IsContinuation(second)
                /\ (b = 240 => second >= 144)
                /\ (b = 244 => second <= 143)
                /\ IsContinuation(bytes[i + 2])
                /\ IsContinuation(bytes[i + 3])
             THEN 4 ELSE 0
        ELSE 0

RECURSIVE IsValidUtf8From(_, _)
IsValidUtf8From(bytes, i) ==
    IF i > Len(bytes) THEN TRUE
    ELSE LET n == Utf8CharLen(bytes, i)
         IN  n > 0 /\ IsValidUtf8From(bytes, i + n)

\* String::from_utf8(bytes): the String holds the same bytes when they are
\* well-formed UTF-8
StringFromUtf8(bytes) ==
    IF IsValidUtf8From(bytes, 1)
    THEN [ok |-> TRUE, string |-> bytes]
    ELSE [ok |-> FALSE, string |-> <<>>]

\* PublicKey::try_from_slice(bytes): the tag selects the key type, the key
\* data has that type's length and no byte is left over
PublicKeyTryFromSlice(bytes) ==
    LET bad == [ok |-> FALSE, key |-> [key_type |-> "None", data |-> <<>>]]
    IN  IF Len(bytes) = 0 THEN bad
        ELSE IF bytes[1] = 0 /\ Len(bytes) = 1 + ED25519KeyLen
        THEN [ok |-> TRUE, key |-> [key_type |-> "ED25519", data |-> Tail(bytes)]]
        ELSE IF bytes[1] = 1 /\ Len(bytes) = 1 + Secp256K1KeyLen
        THEN [ok |-> TRUE, key |-> [key_type |-> "SECP256K1", data |-> Tail(bytes)]]
        ELSE bad

\* method_names.into_iter().map(String::from_utf8).collect::<Result<Vec<_>, _>>()
RECURSIVE CollectMethodNames(_)
CollectMethodNames(method_names) ==
    IF method_names = <<>> THEN [ok |-> TRUE, strings |-> <<>>]
    ELSE LET head == StringFromUtf8(Head(method_names))
         IN  IF ~head.ok THEN [ok |-> FALSE, strings |-> <<>>]
             ELSE LET rest == CollectMethodNames(Tail(method_names))
                  IN  IF ~rest.ok THEN rest
                      ELSE [ok |-> TRUE, strings |-> <<head.string>> \o rest.strings]

(***************************************************************************)
(* ReceiptManager operations, as functions of the manager's fields.        *)
(***************************************************************************)
NoReceiver == "none"

\* get_receipt_receiver reading one entry too far
get_receipt_receiver_off_by_one(receipts, receipt_index) ==
    IF receipt_index + 1 < Len(receipts)
    THEN receipts[receipt_index + 2].receiver_id
    ELSE NoReceiver

\* self.action_receipts.get(receipt_index as usize).map(|(id, _)| id)
get_receipt_receiver(receipts, receipt_index) ==
    IF receipt_index < Len(receipts)
    THEN receipts[receipt_index + 1].receiver_id
    ELSE NoReceiver

\* push_action inserting at the front of the list
push_action_front(receipts, receipt_index, action) ==
    [receipts EXCEPT ![receipt_index + 1].metadata.actions = <<action>> \o @]

\* push_action pushing the action twice
push_action_twice(receipts, receipt_index, action) ==
    [receipts EXCEPT ![receipt_index + 1].metadata.actions =
        Append(Append(@, action), action)]

\* actions.push(action) on the receipt at receipt_index
push_action(receipts, receipt_index, action) ==
    [receipts EXCEPT ![receipt_index + 1].metadata.actions = Append(@, action)]

\* append_action returning the length of the list after the push, one past
\* the index of the action
append_action_index_after_push(receipts, receipt_index, action) ==
    IF receipt_index < Len(receipts)
    THEN LET pushed == push_action(receipts, receipt_index, action)
         IN  [panic |-> FALSE, receipts |-> pushed,
              index |-> Len(pushed[receipt_index + 1].metadata.actions)]
    ELSE [panic |-> TRUE, receipts |-> receipts, index |-> 0]

\* append_action: panics when the receipt is absent, else pushes the action
\* and returns the index it was inserted at
append_action(receipts, receipt_index, action) ==
    IF receipt_index < Len(receipts)
    THEN LET pushed == push_action(receipts, receipt_index, action)
         IN  [panic |-> FALSE, receipts |-> pushed,
              index |-> Len(pushed[receipt_index + 1].metadata.actions) - 1]
    ELSE [panic |-> TRUE, receipts |-> receipts, index |-> 0]

\* push_data_receiver routing the data back to the predecessor's own account
push_data_receiver_to_predecessor(receipts, receipt_index, data_id, receiver_id) ==
    [receipts EXCEPT ![receipt_index + 1].metadata.output_data_receivers =
        Append(@, DataReceiver(data_id, receipts[receipt_index + 1].receiver_id))]

\* push_data_receiver registering the data receiver twice
push_data_receiver_twice(receipts, receipt_index, data_id, receiver_id) ==
    [receipts EXCEPT ![receipt_index + 1].metadata.output_data_receivers =
        Append(Append(@, DataReceiver(data_id, receiver_id)),
               DataReceiver(data_id, receiver_id))]

\* push_data_receiver putting the new data receiver in front of the others
push_data_receiver_front(receipts, receipt_index, data_id, receiver_id) ==
    [receipts EXCEPT ![receipt_index + 1].metadata.output_data_receivers =
        <<DataReceiver(data_id, receiver_id)>> \o @]

\* output_data_receivers.push(DataReceiver { data_id, receiver_id })
push_data_receiver(receipts, receipt_index, data_id, receiver_id) ==
    [receipts EXCEPT ![receipt_index + 1].metadata.output_data_receivers =
        Append(@, DataReceiver(data_id, receiver_id))]

\* the loop of create_receipt over receipt_indices: each iteration takes a
\* data id, looks the predecessor up, registers the data receiver on it and
\* collects the data id; the first absent predecessor ends the call
RECURSIVE create_receipt_loop(_, _, _, _)
create_receipt_loop(receipts, receipt_indices, receiver_id, input_data_ids) ==
    IF receipt_indices = <<>>
    THEN [ok |-> TRUE, receipts |-> receipts, input_data_ids |-> input_data_ids,
          receipt_index |-> 0]
    ELSE LET receipt_index == Head(receipt_indices)
             data_id == CryptoHashDefault
         IN  IF receipt_index >= Len(receipts)
             THEN [ok |-> FALSE, receipts |-> receipts,
                   input_data_ids |-> input_data_ids,
                   receipt_index |-> receipt_index]
             ELSE create_receipt_loop(
                      push_data_receiver(receipts, receipt_index, data_id, receiver_id),
                      Tail(receipt_indices), receiver_id,
                      Append(input_data_ids, data_id))

\* new_receipt_index taken after the push
new_receipt_index_after_push(receipts) == Len(receipts) + 1

\* self.action_receipts.len() as u64, taken before the push
new_receipt_index(receipts) == Len(receipts)

\* create_receipt pushing the new receipt before it walks the predecessor list,
\* so that the list may name the receipt being created
create_receipt_push_first(receipts, receipt_indices, receiver_id) ==
    LET pushed == Append(receipts,
                         ActionReceipt(receiver_id, ReceiptMetadata(<<>>, <<>>, <<>>)))
        loop == create_receipt_loop(pushed, receipt_indices, receiver_id, <<>>)
    IN  IF ~loop.ok
        THEN [kind |-> "InvalidReceiptIndex", receipts |-> loop.receipts,
              index |-> loop.receipt_index]
        ELSE [kind |-> "Ok",
              receipts |-> [loop.receipts EXCEPT
                               ![Len(pushed)].metadata.input_data_ids =
                                   loop.input_data_ids],
              index |-> new_receipt_index(receipts)]

\* create_receipt whose error names the last absent predecessor of the list
\* rather than the one the loop stopped at
create_receipt_reporting_last(receipts, receipt_indices, receiver_id) ==
    LET loop == create_receipt_loop(receipts, receipt_indices, receiver_id, <<>>)
        absent == {j \in 1 .. Len(receipt_indices) :
                      receipt_indices[j] >= Len(receipts)}
        last == CHOOSE j \in absent : \A other \in absent : other <= j
    IN  IF ~loop.ok
        THEN [kind |-> "InvalidReceiptIndex", receipts |-> loop.receipts,
              index |-> receipt_indices[last]]
        ELSE LET new_receipt == ReceiptMetadata(<<>>, loop.input_data_ids, <<>>)
             IN  [kind |-> "Ok",
                  receipts |-> Append(loop.receipts,
                                      ActionReceipt(receiver_id, new_receipt)),
                  index |-> new_receipt_index(loop.receipts)]

create_receipt(receipts, receipt_indices, receiver_id) ==
    LET loop == create_receipt_loop(receipts, receipt_indices, receiver_id, <<>>)
    IN  IF ~loop.ok
        THEN [kind |-> "InvalidReceiptIndex", receipts |-> loop.receipts,
              index |-> loop.receipt_index]
        ELSE LET new_receipt == ReceiptMetadata(<<>>, loop.input_data_ids, <<>>)
             IN  [kind |-> "Ok",
                  receipts |-> Append(loop.receipts,
                                      ActionReceipt(receiver_id, new_receipt)),
                  index |-> new_receipt_index(loop.receipts)]

(***************************************************************************)
(* get_num_seats_per_shard of core/primitives/src/utils.rs.                *)
(***************************************************************************)
\* std::cmp::max
max(a, b) == IF a >= b THEN a ELSE b

\* get_num_seats_per_shard handing out the plain quotient, without max(num, 1)
get_num_seats_per_shard_unclamped(num_shards, num_seats) ==
    [k \in 1 .. num_shards |->
        LET i == k - 1
            remainder == num_seats % num_shards
        IN  IF i < remainder
            THEN num_seats \div num_shards + 1
            ELSE num_seats \div num_shards]

\* (0..num_shards).map(|i| ...).collect(): entry k of the result is the seat
\* count of shard i = k - 1
get_num_seats_per_shard(num_shards, num_seats) ==
    [k \in 1 .. num_shards |->
        LET i == k - 1
            remainder == num_seats % num_shards
            num == IF i < remainder
                   THEN num_seats \div num_shards + 1
                   ELSE num_seats \div num_shards
        IN  max(num, 1)]

\* no call of get_num_seats_per_shard is under study
NoSeats == [num_shards |-> 0, num_seats |-> 0, assignment |-> <<>>]

\* ExtResult of one append, with the manager's fields after the call
Outcome(kind, receipts, weights, index) ==
    [kind |-> kind, receipts |-> receipts, weights |-> weights, index |-> index]

\* self.append_action(receipt_index, action); Ok(())
append_built_action(receipts, weights, receipt_index, action) ==
    LET a == append_action(receipts, receipt_index, action)
    IN  IF a.panic THEN Outcome("Panic", receipts, weights, 0)
        ELSE Outcome("Ok", a.receipts, weights, a.index)

append_action_create_account(receipts, weights, receipt_index) ==
    append_built_action(receipts, weights, receipt_index, CreateAccountAction)

append_action_deploy_contract(receipts, weights, receipt_index, code) ==
    append_built_action(receipts, weights, receipt_index, DeployContractAction(code))

\* append_action_function_call_weight recording the weight whatever it is
append_action_function_call_weight_ungated(receipts, weights, receipt_index, method_name, args, attached_deposit, prepaid_gas, gas_weight) ==
    LET name == StringFromUtf8(method_name)
    IN  IF ~name.ok THEN Outcome("InvalidMethodName", receipts, weights, 0)
        ELSE LET a == append_action(receipts, receipt_index,
                          FunctionCallAction(name.string, args, prepaid_gas,
                                             attached_deposit))
             IN  IF a.panic THEN Outcome("Panic", receipts, weights, 0)
                 ELSE Outcome("Ok", a.receipts,
                              Append(weights,
                                     GasWeightEntry(
                                         FunctionCallActionIndex(receipt_index, a.index),
                                         gas_weight)),
                              a.index)

\* append_action_function_call_weight folding the weight into the gas of the
\* action it builds
append_action_function_call_weight_into_gas(receipts, weights, receipt_index, method_name, args, attached_deposit, prepaid_gas, gas_weight) ==
    LET name == StringFromUtf8(method_name)
    IN  IF ~name.ok THEN Outcome("InvalidMethodName", receipts, weights, 0)
        ELSE LET a == append_action(receipts, receipt_index,
                          FunctionCallAction(name.string, args,
                                             prepaid_gas + gas_weight,
                                             attached_deposit))
             IN  IF a.panic THEN Outcome("Panic", receipts, weights, 0)
                 ELSE IF gas_weight > 0
                 THEN Outcome("Ok", a.receipts,
                              Append(weights,
                                     GasWeightEntry(
                                         FunctionCallActionIndex(receipt_index, a.index),
                                         gas_weight)),
                              a.index)
                 ELSE Outcome("Ok", a.receipts, weights, a.index)

\* the method name is decoded while the action is built, before append_action
\* is entered; the weight is recorded after the push
append_action_function_call_weight(receipts, weights, receipt_index, method_name, args, attached_deposit, prepaid_gas, gas_weight) ==
    LET name == StringFromUtf8(method_name)
    IN  IF ~name.ok THEN Outcome("InvalidMethodName", receipts, weights, 0)
        ELSE LET a == append_action(receipts, receipt_index,
                          FunctionCallAction(name.string, args, prepaid_gas,
                                             attached_deposit))
             IN  IF a.panic THEN Outcome("Panic", receipts, weights, 0)
                 ELSE IF gas_weight > 0
                 THEN Outcome("Ok", a.receipts,
                              Append(weights,
                                     GasWeightEntry(
                                         FunctionCallActionIndex(receipt_index, a.index),
                                         gas_weight)),
                              a.index)
                 ELSE Outcome("Ok", a.receipts, weights, a.index)

\* append_action_function_call pushing the action before its method name is
\* decoded, the raw bytes standing in for the name
append_action_function_call_push_first(receipts, weights, receipt_index, method_name, args, attached_deposit, prepaid_gas) ==
    LET name == StringFromUtf8(method_name)
        a == append_action(receipts, receipt_index,
                 FunctionCallAction(method_name, args, prepaid_gas,
                                    attached_deposit))
    IN  IF a.panic THEN Outcome("Panic", receipts, weights, 0)
        ELSE IF ~name.ok THEN Outcome("InvalidMethodName", a.receipts, weights, 0)
        ELSE Outcome("Ok", a.receipts, weights, a.index)

\* append_action_function_call copied from the weighted variant, recording a
\* weight of one
append_action_function_call_weighing(receipts, weights, receipt_index, method_name, args, attached_deposit, prepaid_gas) ==
    append_action_function_call_weight(receipts, weights, receipt_index,
                                       method_name, args, attached_deposit,
                                       prepaid_gas, 1)

append_action_function_call(receipts, weights, receipt_index, method_name, args, attached_deposit, prepaid_gas) ==
    LET name == StringFromUtf8(method_name)
    IN  IF ~name.ok THEN Outcome("InvalidMethodName", receipts, weights, 0)
        ELSE append_built_action(receipts, weights, receipt_index,
                 FunctionCallAction(name.string, args, prepaid_gas, attached_deposit))

append_action_transfer(receipts, weights, receipt_index, deposit) ==
    append_built_action(receipts, weights, receipt_index, TransferAction(deposit))

append_action_stake(receipts, weights, receipt_index, stake, public_key) ==
    LET key == PublicKeyTryFromSlice(public_key)
    IN  IF ~key.ok THEN Outcome("InvalidPublicKey", receipts, weights, 0)
        ELSE append_built_action(receipts, weights, receipt_index,
                                 StakeAction(stake, key.key))

append_action_add_key_with_full_access(receipts, weights, receipt_index, public_key, nonce) ==
    LET key == PublicKeyTryFromSlice(public_key)
    IN  IF ~key.ok THEN Outcome("InvalidPublicKey", receipts, weights, 0)
        ELSE append_built_action(receipts, weights, receipt_index,
                 AddKeyAction(key.key, AccessKey(nonce, FullAccessPermission)))

\* the fields of the action are built in the order written: the public key,
\* then the method names
append_action_add_key_with_function_call(receipts, weights, receipt_index, public_key, nonce, allowance, receiver_id, method_names) ==
    LET key == PublicKeyTryFromSlice(public_key)
        names == CollectMethodNames(method_names)
    IN  IF ~key.ok THEN Outcome("InvalidPublicKey", receipts, weights, 0)
        ELSE IF ~names.ok THEN Outcome("InvalidMethodName", receipts, weights, 0)
        ELSE append_built_action(receipts, weights, receipt_index,
                 AddKeyAction(key.key,
                     AccessKey(nonce,
                         FunctionCallPermission(allowance, receiver_id,
                                                names.strings))))

append_action_delete_key(receipts, weights, receipt_index, public_key) ==
    LET key == PublicKeyTryFromSlice(public_key)
    IN  IF ~key.ok THEN Outcome("InvalidPublicKey", receipts, weights, 0)
        ELSE append_built_action(receipts, weights, receipt_index,
                                 DeleteKeyAction(key.key))

append_action_delete_account(receipts, weights, receipt_index, beneficiary_id) ==
    append_built_action(receipts, weights, receipt_index,
                        DeleteAccountAction(beneficiary_id))

(***************************************************************************)
(* The state machine: one host call per step.  result is what the last     *)
(* call returned.  created and appended are the history of the successful  *)
(* calls, kept to state the properties: created lists, in call order, the  *)
(* index each create_receipt returned and the receiver it was given;       *)
(* appended holds, for each successful append, the receipt, the ordinal of *)
(* the append among those to that receipt, the action index append_action  *)
(* returned and the action asked for.  A panic unwinds the execution: no   *)
(* call follows it.                                                        *)
(***************************************************************************)
RECURSIVE Sum(_)
Sum(numbers) ==
    IF numbers = <<>> THEN 0 ELSE Head(numbers) + Sum(Tail(numbers))

NumActions(receipts) ==
    Sum([i \in 1 .. Len(receipts) |-> Len(receipts[i].metadata.actions)])

NumDataReceivers(receipts) ==
    Sum([i \in 1 .. Len(receipts) |->
            Len(receipts[i].metadata.output_data_receivers)])

NumInputDataIds(receipts) ==
    Sum([i \in 1 .. Len(receipts) |-> Len(receipts[i].metadata.input_data_ids)])

Size(receipts) ==
    Len(receipts) + NumDataReceivers(receipts) + 2 * NumActions(receipts)

WithinBounds(receipts) == Size(receipts) <= MaxSize

\* what a call returned: its kind, the index it carries (the new receipt index,
\* the index inside InvalidReceiptIndex, the action index of an append) and the
\* receiver a query found
Result(kind, index, receiver) ==
    [kind |-> kind, index |-> index, receiver |-> receiver]

Running == result.kind # "Panic"

\* number of successful appends to the receipt so far
NumAppended(receipt_index) ==
    Cardinality({entry \in appended : entry.receipt_index = receipt_index})

Init ==
    /\ action_receipts = <<>>
    /\ gas_weights = <<>>
    /\ result = Result("New", 0, NoReceiver)
    /\ created = <<>>
    /\ appended = {}
    /\ seats = NoSeats

GetReceiptReceiver ==
    \E receipt_index \in ReceiptIndexInputs :
        LET receiver == get_receipt_receiver(action_receipts, receipt_index)
        IN  /\ Running
            /\ result' = Result(IF receiver = NoReceiver THEN "None" ELSE "Some",
                                0, receiver)
            /\ UNCHANGED <<action_receipts, gas_weights, created, appended, seats>>

CreateReceiptCall(receipt_indices, receiver_id) ==
    LET out == create_receipt(action_receipts, receipt_indices, receiver_id)
    IN  /\ Running
        /\ WithinBounds(out.receipts)
        /\ action_receipts' = out.receipts
        /\ result' = Result(out.kind, out.index, NoReceiver)
        /\ created' = IF out.kind = "Ok"
                      THEN Append(created, [index |-> out.index,
                                            receiver_id |-> receiver_id])
                      ELSE created
        /\ UNCHANGED <<gas_weights, appended, seats>>

CreateReceipt ==
    \E receipt_indices \in PredecessorInputs, receiver_id \in AccountIds :
        CreateReceiptCall(receipt_indices, receiver_id)

\* the step of an append call that asked for `action` and came out as `out`
AppendCall(receipt_index, action, out) ==
    /\ Running
    /\ WithinBounds(out.receipts)
    /\ action_receipts' = out.receipts
    /\ gas_weights' = out.weights
    /\ result' = Result(out.kind, out.index, NoReceiver)
    /\ appended' = IF out.kind = "Ok"
                   THEN appended \cup {[receipt_index |-> receipt_index,
                                        nth |-> NumAppended(receipt_index) + 1,
                                        action_index |-> out.index,
                                        action |-> action]}
                   ELSE appended
    /\ UNCHANGED <<created, seats>>

AppendActionCreateAccountAt(receipt_index) ==
    AppendCall(receipt_index, CreateAccountAction,
               append_action_create_account(action_receipts, gas_weights,
                                            receipt_index))

AppendActionCreateAccount ==
    \E receipt_index \in ReceiptIndexInputs :
        AppendActionCreateAccountAt(receipt_index)

AppendActionDeployContractAt(receipt_index) ==
    \E code \in CodeInputs :
        AppendCall(receipt_index, DeployContractAction(code),
                   append_action_deploy_contract(action_receipts, gas_weights,
                                                 receipt_index, code))

AppendActionDeployContract ==
    \E receipt_index \in ReceiptIndexInputs :
        AppendActionDeployContractAt(receipt_index)

FunctionCallWeightCall(receipt_index, method_name, args, deposit, gas, gas_weight) ==
    AppendCall(receipt_index, FunctionCallAction(method_name, args, gas, deposit),
               append_action_function_call_weight(action_receipts, gas_weights,
                   receipt_index, method_name, args, deposit, gas, gas_weight))

AppendActionFunctionCallWeightAt(receipt_index) ==
    \E method_name \in MethodNameInputs, args \in ArgsInputs,
       deposit \in DepositInputs, gas \in GasInputs,
       gas_weight \in GasWeightInputs :
        FunctionCallWeightCall(receipt_index, method_name, args, deposit, gas,
                               gas_weight)

AppendActionFunctionCallWeight ==
    \E receipt_index \in ReceiptIndexInputs :
        AppendActionFunctionCallWeightAt(receipt_index)

FunctionCallCall(receipt_index, method_name, args, deposit, gas) ==
    AppendCall(receipt_index, FunctionCallAction(method_name, args, gas, deposit),
               append_action_function_call(action_receipts, gas_weights,
                   receipt_index, method_name, args, deposit, gas))

AppendActionFunctionCallAt(receipt_index) ==
    \E method_name \in MethodNameInputs, args \in ArgsInputs,
       deposit \in DepositInputs, gas \in GasInputs :
        FunctionCallCall(receipt_index, method_name, args, deposit, gas)

AppendActionFunctionCall ==
    \E receipt_index \in ReceiptIndexInputs :
        AppendActionFunctionCallAt(receipt_index)

AppendActionTransferAt(receipt_index) ==
    \E deposit \in DepositInputs :
        AppendCall(receipt_index, TransferAction(deposit),
                   append_action_transfer(action_receipts, gas_weights,
                                          receipt_index, deposit))

AppendActionTransfer ==
    \E receipt_index \in ReceiptIndexInputs :
        AppendActionTransferAt(receipt_index)

AppendActionStakeAt(receipt_index) ==
    \E stake \in DepositInputs, public_key \in PublicKeyInputs :
        AppendCall(receipt_index,
                   StakeAction(stake, PublicKeyTryFromSlice(public_key).key),
                   append_action_stake(action_receipts, gas_weights,
                                       receipt_index, stake, public_key))

AppendActionStake ==
    \E receipt_index \in ReceiptIndexInputs :
        AppendActionStakeAt(receipt_index)

AppendActionAddKeyWithFullAccessAt(receipt_index) ==
    \E public_key \in PublicKeyInputs, nonce \in NonceInputs :
        AppendCall(receipt_index,
                   AddKeyAction(PublicKeyTryFromSlice(public_key).key,
                                AccessKey(nonce, FullAccessPermission)),
                   append_action_add_key_with_full_access(action_receipts,
                       gas_weights, receipt_index, public_key, nonce))

AppendActionAddKeyWithFullAccess ==
    \E receipt_index \in ReceiptIndexInputs :
        AppendActionAddKeyWithFullAccessAt(receipt_index)

AddKeyWithFunctionCallCall(receipt_index, public_key, nonce, allowance, receiver_id, method_names) ==
    AppendCall(receipt_index,
               AddKeyAction(PublicKeyTryFromSlice(public_key).key,
                            AccessKey(nonce,
                                FunctionCallPermission(allowance, receiver_id,
                                                       method_names))),
               append_action_add_key_with_function_call(action_receipts,
                   gas_weights, receipt_index, public_key, nonce, allowance,
                   receiver_id, method_names))

AppendActionAddKeyWithFunctionCallAt(receipt_index) ==
    \E public_key \in PublicKeyInputs, nonce \in NonceInputs,
       allowance \in AllowanceInputs, receiver_id \in BeneficiaryInputs,
       method_names \in MethodNamesInputs :
        AddKeyWithFunctionCallCall(receipt_index, public_key, nonce, allowance,
                                   receiver_id, method_names)

AppendActionAddKeyWithFunctionCall ==
    \E receipt_index \in ReceiptIndexInputs :
        AppendActionAddKeyWithFunctionCallAt(receipt_index)

AppendActionDeleteKeyAt(receipt_index) ==
    \E public_key \in PublicKeyInputs :
        AppendCall(receipt_index,
                   DeleteKeyAction(PublicKeyTryFromSlice(public_key).key),
                   append_action_delete_key(action_receipts, gas_weights,
                                            receipt_index, public_key))

AppendActionDeleteKey ==
    \E receipt_index \in ReceiptIndexInputs :
        AppendActionDeleteKeyAt(receipt_index)

AppendActionDeleteAccountAt(receipt_index) ==
    \E beneficiary_id \in BeneficiaryInputs :
        AppendCall(receipt_index, DeleteAccountAction(beneficiary_id),
                   append_action_delete_account(action_receipts, gas_weights,
                                                receipt_index, beneficiary_id))

AppendActionDeleteAccount ==
    \E receipt_index \in ReceiptIndexInputs :
        AppendActionDeleteAccountAt(receipt_index)

Next ==
    \/ GetReceiptReceiver
    \/ CreateReceipt
    \/ AppendActionCreateAccount
    \/ AppendActionDeployContract
    \/ AppendActionFunctionCallWeight
    \/ AppendActionFunctionCall
    \/ AppendActionTransfer
    \/ AppendActionStake
    \/ AppendActionAddKeyWithFullAccess
    \/ AppendActionAddKeyWithFunctionCall
    \/ AppendActionDeleteKey
    \/ AppendActionDeleteAccount

Spec == Init /\ [][Next]_vars

(***************************************************************************)
(* The calls of get_num_seats_per_shard: one call per behaviour, with the  *)
(* arguments drawn from 1 .. MaxSeats as test_num_chunk_producers draws    *)
(* them; the receipt manager stays as constructed.                         *)
(***************************************************************************)
NumShardsInputs == 1 .. MaxSeats

NumSeatsInputs == 1 .. MaxSeats

SeatsInit ==
    /\ action_receipts = <<>>
    /\ gas_weights = <<>>
    /\ result = Result("New", 0, NoReceiver)
    /\ created = <<>>
    /\ appended = {}
    /\ seats \in {[num_shards |-> num_shards, num_seats |-> num_seats,
                   assignment |-> <<>>] :
                     num_shards \in NumShardsInputs, num_seats \in NumSeatsInputs}

\* let assignment = get_num_seats_per_shard(num_shards, num_seats)
GetNumSeatsPerShard ==
    /\ seats.assignment = <<>>
    /\ seats' = [seats EXCEPT !.assignment =
                    get_num_seats_per_shard(seats.num_shards, seats.num_seats)]
    /\ UNCHANGED <<action_receipts, gas_weights, result, created, appended>>

SeatsNext == GetNumSeatsPerShard

SeatsSpec == SeatsInit /\ [][SeatsNext]_vars

(***************************************************************************)
(* Properties.                                                             *)
(***************************************************************************)
ReceiptAt(receipt_index) == action_receipts[receipt_index + 1]

\* the step is an append of some kind to receipt_index
AppendActionAt(receipt_index) ==
    \/ AppendActionCreateAccountAt(receipt_index)
    \/ AppendActionDeployContractAt(receipt_index)
    \/ AppendActionFunctionCallWeightAt(receipt_index)
    \/ AppendActionFunctionCallAt(receipt_index)
    \/ AppendActionTransferAt(receipt_index)
    \/ AppendActionStakeAt(receipt_index)
    \/ AppendActionAddKeyWithFullAccessAt(receipt_index)
    \/ AppendActionAddKeyWithFunctionCallAt(receipt_index)
    \/ AppendActionDeleteKeyAt(receipt_index)
    \/ AppendActionDeleteAccountAt(receipt_index)

NamesNoReceipt(receipt_index) == receipt_index >= Len(action_receipts)

HasInvalidPredecessor(receipt_indices) ==
    \E j \in 1 .. Len(receipt_indices) : NamesNoReceipt(receipt_indices[j])

\* C1: a create_receipt call whose predecessor list holds an index that names
\* no receipt fails with InvalidReceiptIndex and leaves the whole manager as
\* it was: no data receiver is registered on the valid predecessors listed
\* before the invalid one, and no receipt is added.
C1_AllOrNothingValidation ==
    [][\A receipt_indices \in PredecessorInputs, receiver_id \in AccountIds :
          (/\ HasInvalidPredecessor(receipt_indices)
           /\ CreateReceiptCall(receipt_indices, receiver_id))
          => /\ result'.kind = "InvalidReceiptIndex"
             /\ action_receipts' = action_receipts
             /\ gas_weights' = gas_weights]_vars

\* C2: every append_action_* call whose receipt_index names no receipt returns
\* the error InvalidReceiptIndex, without panicking, and leaves the manager
\* as it was.
C2_AppendReportsInvalidReceiptIndex ==
    [][\A receipt_index \in ReceiptIndexInputs :
          (NamesNoReceipt(receipt_index) /\ AppendActionAt(receipt_index))
          => /\ result'.kind = "InvalidReceiptIndex"
             /\ action_receipts' = action_receipts
             /\ gas_weights' = gas_weights]_vars

\* the places <<receipt index, position>> of all data receivers
DataReceiverPlaces ==
    {place \in (0 .. Len(action_receipts) - 1) \X (1 .. MaxSize) :
        place[2] <= Len(ReceiptAt(place[1]).metadata.output_data_receivers)}

DataReceiverIn(place) ==
    ReceiptAt(place[1]).metadata.output_data_receivers[place[2]]

\* C3: the data ids minted by create_receipt are unique within the execution:
\* no two data receivers, over all receipts, carry the same data_id, so every
\* id in a receipt's input_data_ids is found in exactly one data receiver.
C3_DataIdsUnique ==
    /\ \A p, q \in DataReceiverPlaces :
          p # q => DataReceiverIn(p).data_id # DataReceiverIn(q).data_id
    /\ \A i \in 0 .. Len(action_receipts) - 1 :
          \A j \in 1 .. Len(ReceiptAt(i).metadata.input_data_ids) :
              Cardinality({p \in DataReceiverPlaces :
                  DataReceiverIn(p).data_id
                      = ReceiptAt(i).metadata.input_data_ids[j]}) = 1

\* C4: get_receipt_receiver(i) returns the receiver passed to the
\* create_receipt call that returned index i, for every i below the number of
\* successfully created receipts, and nothing for every other i, whatever
\* calls (failed ones and appends included) were made in between.
C4_IndexStability ==
    \A i \in 0 .. (Len(created) + 2) :
        IF i < Len(created)
        THEN /\ \E c \in 1 .. Len(created) : created[c].index = i
             /\ \A c \in 1 .. Len(created) :
                   created[c].index = i
                   => get_receipt_receiver(action_receipts, i) = created[c].receiver_id
        ELSE get_receipt_receiver(action_receipts, i) = NoReceiver

\* a query found "bob" behind two receipts of different receivers, after an
\* append and a failed create_receipt that registered a data receiver
C4_Witness ==
    /\ result.kind = "Some"
    /\ result.receiver = "bob"
    /\ Len(created) = 2
    /\ created[1].receiver_id = "alice"
    /\ created[2].receiver_id = "bob"
    /\ NumActions(action_receipts) = 1
    /\ NumDataReceivers(action_receipts) > NumInputDataIds(action_receipts)

\* C5: receipt indices are dense and never reused: the k-th successful
\* create_receipt (k = 0, 1, 2, ...) returns k, the length of action_receipts
\* before its push; each success grows the length by one and a failed
\* create_receipt consumes no index.
C5_DenseReceiptIndices ==
    /\ Len(action_receipts) = Len(created)
    /\ \A k \in 0 .. Len(created) - 1 : created[k + 1].index = k

\* the second successful create_receipt returned 1, after a failed one
C5_Witness ==
    /\ result.kind = "Ok"
    /\ result.index = 1
    /\ Len(created) = 2
    /\ NumActions(action_receipts) = 0
    /\ NumDataReceivers(action_receipts) > NumInputDataIds(action_receipts)

\* how often receipt_index occurs among the first n predecessors
Occurrences(receipt_indices, n, receipt_index) ==
    Cardinality({j \in 1 .. n : receipt_indices[j] = receipt_index})

\* C6: a successful create_receipt(preds, receiver), made in any reachable
\* state, gives the new receipt one input_data_ids entry per predecessor, in
\* the order of preds, and entry j is the data_id of the data receiver this
\* call appended to the end of preds[j]'s output_data_receivers, whose
\* receiver_id is `receiver`; a predecessor named twice gets two entries.
C6_EdgeCorrectness ==
    \A receipt_indices \in PredecessorInputs, receiver_id \in AccountIds :
        LET out == create_receipt(action_receipts, receipt_indices, receiver_id)
            n == Len(receipt_indices)
        IN  out.kind = "Ok"
            => LET new == out.receipts[Len(out.receipts)].metadata
               IN  /\ Len(new.input_data_ids) = n
                   /\ \A j \in 1 .. n :
                         LET p == receipt_indices[j]
                             before == ReceiptAt(p).metadata.output_data_receivers
                             after == out.receipts[p + 1].metadata.output_data_receivers
                             at == Len(before) + Occurrences(receipt_indices, j, p)
                         IN  /\ Len(after)
                                  = Len(before) + Occurrences(receipt_indices, n, p)
                             /\ \A k \in 1 .. Len(before) : after[k] = before[k]
                             /\ after[at].data_id = new.input_data_ids[j]
                             /\ after[at].receiver_id = receiver_id

\* receipt 1, for "bob", was created from the predecessor list [0, 0]: receipt
\* 0 of "alice" holds the two data receivers and receipt 1 the two input ids
C6_Witness ==
    /\ result.kind = "Ok"
    /\ result.index = 1
    /\ Len(action_receipts) = 2
    /\ ReceiptAt(0).receiver_id = "alice"
    /\ ReceiptAt(1).receiver_id = "bob"
    /\ Len(ReceiptAt(1).metadata.input_data_ids) = 2
    /\ Len(ReceiptAt(0).metadata.output_data_receivers) = 2
    /\ \A k \in 1 .. 2 :
          ReceiptAt(0).metadata.output_data_receivers[k].receiver_id = "bob"

AppendedTo(receipt_index) ==
    {entry \in appended : entry.receipt_index = receipt_index}

FunctionCallOutcomes(receipt_index) ==
    {[names |-> <<method_name>>, key |-> <<>>, has_key |-> FALSE,
      out |-> append_action_function_call(action_receipts, gas_weights,
                  receipt_index, method_name, args, deposit, gas)] :
        method_name \in MethodNameInputs, args \in ArgsInputs,
        deposit \in DepositInputs, gas \in GasInputs}

FunctionCallWeightOutcomes(receipt_index) ==
    UNION {{[names |-> <<method_name>>, key |-> <<>>, has_key |-> FALSE,
             out |-> append_action_function_call_weight(action_receipts,
                         gas_weights, receipt_index, method_name, args, deposit,
                         gas, gas_weight)] :
               method_name \in MethodNameInputs, args \in ArgsInputs,
               deposit \in DepositInputs, gas \in GasInputs} :
           gas_weight \in GasWeightInputs}

PublicKeyOutcomes(receipt_index) ==
    UNION {{[names |-> <<>>, key |-> public_key, has_key |-> TRUE,
             out |-> append_action_delete_key(action_receipts, gas_weights,
                         receipt_index, public_key)]}
           \cup {[names |-> <<>>, key |-> public_key, has_key |-> TRUE,
                  out |-> append_action_stake(action_receipts, gas_weights,
                              receipt_index, stake, public_key)] :
                    stake \in DepositInputs}
           \cup {[names |-> <<>>, key |-> public_key, has_key |-> TRUE,
                  out |-> append_action_add_key_with_full_access(action_receipts,
                              gas_weights, receipt_index, public_key, nonce)] :
                    nonce \in NonceInputs}
           \cup {[names |-> method_names, key |-> public_key, has_key |-> TRUE,
                  out |-> append_action_add_key_with_function_call(
                              action_receipts, gas_weights, receipt_index,
                              public_key, nonce, allowance, receiver_id,
                              method_names)] :
                    nonce \in NonceInputs, allowance \in AllowanceInputs,
                    receiver_id \in BeneficiaryInputs,
                    method_names \in MethodNamesInputs} :
           public_key \in PublicKeyInputs}

FailableOutcomes(receipt_index) ==
    FunctionCallOutcomes(receipt_index)
        \cup FunctionCallWeightOutcomes(receipt_index)
        \cup PublicKeyOutcomes(receipt_index)

HasInvalidName(names) ==
    \E k \in 1 .. Len(names) : ~StringFromUtf8(names[k]).ok

HasInvalidKey(call) == call.has_key /\ ~PublicKeyTryFromSlice(call.key).ok

\* C8: an append to an existing receipt, made in any reachable state, that is
\* given an undecodable public key fails with InvalidPublicKey, and one given
\* an invalid method name (at any position of method_names) fails with
\* InvalidMethodName; every append that fails this way appends nothing: the
\* receipts, their action counts and gas_weights stay as they were.
C8_AtomicAppendFailure ==
    \A receipt_index \in 0 .. Len(action_receipts) - 1 :
        \A call \in FailableOutcomes(receipt_index) :
            /\ HasInvalidKey(call) => call.out.kind = "InvalidPublicKey"
            /\ (HasInvalidName(call.names) /\ ~HasInvalidKey(call))
                   => call.out.kind = "InvalidMethodName"
            /\ call.out.kind \in {"InvalidMethodName", "InvalidPublicKey"}
                   => /\ call.out.receipts = action_receipts
                      /\ call.out.weights = gas_weights

\* an append failed with InvalidMethodName while receipt 0 held an action and
\* gas_weights an entry
C8_Witness ==
    /\ result.kind = "InvalidMethodName"
    /\ Len(action_receipts) = 1
    /\ Len(ReceiptAt(0).metadata.actions) = 1
    /\ Len(gas_weights) = 1

\* C9: a successful append_action_function_call_weight, made in any reachable
\* state, adds no gas_weights entry when gas_weight = 0, and when
\* gas_weight > 0 adds exactly one entry, keyed by the receipt index and the
\* position at which the call's FunctionCall action was appended, holding the
\* weight.
C9_WeightGating ==
    \A receipt_index \in 0 .. Len(action_receipts) - 1 :
        \A method_name \in MethodNameInputs, args \in ArgsInputs,
           deposit \in DepositInputs, gas \in GasInputs,
           gas_weight \in GasWeightInputs :
            LET out == append_action_function_call_weight(action_receipts,
                           gas_weights, receipt_index, method_name, args,
                           deposit, gas, gas_weight)
                action_index == Len(ReceiptAt(receipt_index).metadata.actions)
            IN  out.kind = "Ok"
                => /\ Len(out.receipts[receipt_index + 1].metadata.actions)
                          = action_index + 1
                   /\ out.receipts[receipt_index + 1].metadata.actions[action_index + 1]
                          = FunctionCallAction(method_name, args, gas, deposit)
                   /\ IF gas_weight = 0
                      THEN out.weights = gas_weights
                      ELSE out.weights
                               = Append(gas_weights,
                                     GasWeightEntry(
                                         FunctionCallActionIndex(receipt_index,
                                                                 action_index),
                                         gas_weight))

\* receipt 0 holds two function calls, the first appended with weight 0 and
\* the second with weight 5: the one entry is keyed (0, 1)
C9_Witness ==
    /\ result.kind = "Ok"
    /\ result.index = 1
    /\ Len(action_receipts) = 1
    /\ Len(ReceiptAt(0).metadata.actions) = 2
    /\ ReceiptAt(0).metadata.actions[1].kind = "FunctionCall"
    /\ ReceiptAt(0).metadata.actions[2].kind = "FunctionCall"
    /\ gas_weights = <<GasWeightEntry(FunctionCallActionIndex(0, 1), 5)>>

\* C10: gas_weights holds an entry only for function calls appended with a
\* strictly positive weight: every recorded weight is > 0, every key names an
\* action that is a FunctionCall, and a step adds an entry only when it is an
\* append_action_function_call_weight call with gas_weight > 0.
C10_OnlyPositiveWeightsRecorded ==
    /\ [](\A k \in 1 .. Len(gas_weights) :
             LET entry == gas_weights[k]
             IN  /\ entry.gas_weight > 0
                 /\ entry.index.receipt_index < Len(action_receipts)
                 /\ entry.index.action_index
                        < Len(ReceiptAt(entry.index.receipt_index).metadata.actions)
                 /\ ReceiptAt(entry.index.receipt_index).metadata.actions[
                        entry.index.action_index + 1].kind = "FunctionCall")
    /\ [][gas_weights' # gas_weights
          => \E receipt_index \in ReceiptIndexInputs,
                method_name \in MethodNameInputs, args \in ArgsInputs,
                deposit \in DepositInputs, gas \in GasInputs,
                gas_weight \in GasWeightInputs :
                 /\ gas_weight > 0
                 /\ FunctionCallWeightCall(receipt_index, method_name, args,
                                           deposit, gas, gas_weight)]_vars

\* receipt 0 holds a transfer, appended first, and a function call of weight
\* 5: the table has the one entry, for the function call
C10_Witness ==
    /\ Len(action_receipts) = 1
    /\ Len(ReceiptAt(0).metadata.actions) = 2
    /\ ReceiptAt(0).metadata.actions[1].kind = "Transfer"
    /\ ReceiptAt(0).metadata.actions[2].kind = "FunctionCall"
    /\ gas_weights = <<GasWeightEntry(FunctionCallActionIndex(0, 1), 5)>>

\* C11: the receipts form a DAG whose edges run from a smaller index to a
\* larger one. In every reachable state the receipts 0 .. k hold no more input
\* data ids than the receipts below k hold data receivers, so no receipt is fed
\* by itself or by a later receipt; and a successful create_receipt(preds,
\* receiver), made in any reachable state, returns an index s with every
\* preds[j] < s, registers data receivers only on receipts below s and leaves
\* receipt s without data receivers.
C11_ReceiptsFormDag ==
    /\ \A k \in 0 .. Len(action_receipts) - 1 :
          NumInputDataIds(SubSeq(action_receipts, 1, k + 1))
              <= NumDataReceivers(SubSeq(action_receipts, 1, k))
    /\ \A receipt_indices \in PredecessorInputs, receiver_id \in AccountIds :
          LET out == create_receipt(action_receipts, receipt_indices, receiver_id)
          IN  out.kind = "Ok"
              => /\ \A j \in 1 .. Len(receipt_indices) :
                       receipt_indices[j] < out.index
                 /\ out.index < Len(out.receipts)
                 /\ \A i \in 0 .. Len(out.receipts) - 1 :
                       LET after == out.receipts[i + 1].metadata.output_data_receivers
                       IN  \/ i < out.index
                           \/ after = <<>>
                 /\ \A i \in 0 .. Len(action_receipts) - 1 :
                       out.receipts[i + 1].metadata.output_data_receivers
                           # ReceiptAt(i).metadata.output_data_receivers
                       => i < out.index

\* a chain of three receipts: receipt 1 was created from [0] and receipt 2,
\* just now, from [1]
C11_Witness ==
    /\ result.kind = "Ok"
    /\ result.index = 2
    /\ Len(action_receipts) = 3
    /\ Len(ReceiptAt(0).metadata.output_data_receivers) = 1
    /\ Len(ReceiptAt(1).metadata.input_data_ids) = 1
    /\ Len(ReceiptAt(1).metadata.output_data_receivers) = 1
    /\ ReceiptAt(1).metadata.output_data_receivers[1].receiver_id
           = ReceiptAt(2).receiver_id
    /\ Len(ReceiptAt(2).metadata.input_data_ids) = 1
    /\ ReceiptAt(2).metadata.output_data_receivers = <<>>

\* the first index of the list, in list order, that names no receipt
FirstInvalidPredecessor(receipt_indices) ==
    LET first == CHOOSE j \in 1 .. Len(receipt_indices) :
                    /\ NamesNoReceipt(receipt_indices[j])
                    /\ \A before \in 1 .. j - 1 :
                          ~NamesNoReceipt(receipt_indices[before])
    IN  receipt_indices[first]

\* C12: a create_receipt call, made in any reachable state, fails exactly
\* when its predecessor list holds an index that names no receipt, and the
\* InvalidReceiptIndex error then carries the first such index in the order of
\* the list: not a later invalid index and not a valid one.
C12_ErrorCarriesFirstInvalidIndex ==
    \A receipt_indices \in PredecessorInputs, receiver_id \in AccountIds :
        LET out == create_receipt(action_receipts, receipt_indices, receiver_id)
        IN  IF HasInvalidPredecessor(receipt_indices)
            THEN /\ out.kind = "InvalidReceiptIndex"
                 /\ out.index = FirstInvalidPredecessor(receipt_indices)
                 /\ NamesNoReceipt(out.index)
            ELSE out.kind = "Ok"

\* a create_receipt call on the single receipt 0 failed with index 2, an index
\* past the first absent one, after receipt 0 had been registered on
C12_Witness ==
    /\ result.kind = "InvalidReceiptIndex"
    /\ result.index = 2
    /\ Len(action_receipts) = 1
    /\ Len(ReceiptAt(0).metadata.output_data_receivers) = 1
    /\ NumActions(action_receipts) = 0

\* C13: get_num_seats_per_shard(num_shards, num_seats) returns num_shards
\* seat counts whose sum is max(num_seats, num_shards), for every num_seats
\* and num_shards in 1 .. MaxSeats: every shard gets at least one seat, and
\* with num_seats >= num_shards the counts add up to num_seats exactly.
C13_SeatsSumToMax ==
    seats.assignment # <<>>
    => LET assignment == seats.assignment
       IN  /\ Len(assignment) = seats.num_shards
           /\ Sum(assignment) = max(seats.num_seats, seats.num_shards)
           /\ \A k \in 1 .. Len(assignment) : assignment[k] >= 1
           /\ seats.num_seats >= seats.num_shards
              => Sum(assignment) = seats.num_seats

\* three seats over five shards: the quotient is 0 for the last two shards
\* and every shard still holds one seat
C13_Witness ==
    /\ seats.num_seats = 3
    /\ seats.num_shards = 5
    /\ seats.assignment = <<1, 1, 1, 1, 1>>

\* C14: append_action_function_call_weight validates and builds as
\* append_action_function_call does: called in any reachable state with the
\* same receipt_index, method_name, args, deposit and prepaid_gas, the two
\* give the same outcome and the same action_receipts for every gas_weight;
\* the FunctionCall they append carries prepaid_gas as its gas; the plain
\* variant leaves gas_weights alone and the weighted one differs from it only
\* by the entry it adds when it succeeds with gas_weight > 0.
C14_WeightedMatchesPlain ==
    \A receipt_index \in ReceiptIndexInputs, method_name \in MethodNameInputs,
       args \in ArgsInputs, deposit \in DepositInputs, gas \in GasInputs,
       gas_weight \in GasWeightInputs :
        LET plain == append_action_function_call(action_receipts, gas_weights,
                         receipt_index, method_name, args, deposit, gas)
            weighted == append_action_function_call_weight(action_receipts,
                            gas_weights, receipt_index, method_name, args,
                            deposit, gas, gas_weight)
        IN  /\ weighted.kind = plain.kind
            /\ weighted.receipts = plain.receipts
            /\ weighted.index = plain.index
            /\ plain.weights = gas_weights
            /\ weighted.weights
                  = IF weighted.kind = "Ok" /\ gas_weight > 0
                    THEN Append(gas_weights,
                                GasWeightEntry(
                                    FunctionCallActionIndex(receipt_index,
                                                            weighted.index),
                                    gas_weight))
                    ELSE gas_weights
            /\ weighted.kind = "Ok"
               => LET actions == weighted.receipts[receipt_index + 1].metadata.actions
                  IN  /\ actions[Len(actions)].kind = "FunctionCall"
                      /\ actions[Len(actions)].gas = gas
                      /\ actions[Len(actions)].deposit = deposit

\* receipt 1 holds one function call with gas 1000, appended with weight 5
\* and recorded in the table; receipt 0 holds none
C14_Witness ==
    /\ result.kind = "Ok"
    /\ result.index = 0
    /\ Len(action_receipts) = 2
    /\ ReceiptAt(0).metadata.actions = <<>>
    /\ Len(ReceiptAt(1).metadata.actions) = 1
    /\ ReceiptAt(1).metadata.actions[1].kind = "FunctionCall"
    /\ ReceiptAt(1).metadata.actions[1].gas = 1000
    /\ gas_weights = <<GasWeightEntry(FunctionCallActionIndex(1, 0), 5)>>

\* C15: frame of a successful append. A step in which an append_action_* call
\* on receipt r succeeds puts the action it built last in r's actions, at the
\* index it returns, and changes nothing else: the number of receipts, r's
\* receiver_id, input_data_ids and output_data_receivers and every other
\* receipt stay as they were; gas_weights stays as it was unless the action
\* is a function call and the step is an append_action_function_call_weight
\* call with gas_weight > 0, which adds the one entry for that action.
C15_SuccessfulAppendFrame ==
    [][appended' # appended
       => \E entry \in appended' \ appended :
             LET r == entry.receipt_index
                 before == ReceiptAt(r)
                 after == action_receipts'[r + 1]
             IN  /\ appended' = appended \cup {entry}
                 /\ result'.kind = "Ok"
                 /\ result'.index = entry.action_index
                 /\ r < Len(action_receipts)
                 /\ Len(action_receipts') = Len(action_receipts)
                 /\ entry.action_index = Len(before.metadata.actions)
                 /\ after.metadata.actions
                        = Append(before.metadata.actions, entry.action)
                 /\ after.receiver_id = before.receiver_id
                 /\ after.metadata.input_data_ids = before.metadata.input_data_ids
                 /\ after.metadata.output_data_receivers
                        = before.metadata.output_data_receivers
                 /\ \A i \in 0 .. Len(action_receipts) - 1 :
                       i # r => action_receipts'[i + 1] = ReceiptAt(i)
                 /\ gas_weights' # gas_weights
                    => /\ entry.action.kind = "FunctionCall"
                       /\ \E gas_weight \in GasWeightInputs :
                             /\ gas_weight > 0
                             /\ gas_weights'
                                   = Append(gas_weights,
                                            GasWeightEntry(
                                                FunctionCallActionIndex(
                                                    r, entry.action_index),
                                                gas_weight))
                             /\ FunctionCallWeightCall(r, entry.action.method_name,
                                    entry.action.args, entry.action.deposit,
                                    entry.action.gas, gas_weight)]_vars

\* receipt 1, fed by receipt 0, has just been given its first action, a
\* contract deployment: receipt 0 and the edge are as before the call
C15_Witness ==
    /\ result.kind = "Ok"
    /\ result.index = 0
    /\ Len(action_receipts) = 2
    /\ Len(ReceiptAt(0).metadata.output_data_receivers) = 1
    /\ ReceiptAt(0).metadata.actions = <<>>
    /\ Len(ReceiptAt(1).metadata.input_data_ids) = 1
    /\ Len(ReceiptAt(1).metadata.actions) = 1
    /\ ReceiptAt(1).metadata.actions[1].kind = "DeployContract"
    /\ \E entry \in appended : entry.receipt_index = 1 /\ entry.action_index = 0

\* C16: frame of a successful create_receipt. Called in any reachable state
\* with any predecessor list and receiver, a create_receipt that succeeds
\* pushes one receipt, for the receiver, with empty output_data_receivers and
\* empty actions; it keeps the receiver_id, the input_data_ids and the actions
\* of every existing receipt; each existing receipt keeps the data receivers
\* it had and gains as many as its index occurs in the list, none when it is
\* not named; with an empty list every existing receipt is as before. The
\* step of a successful create_receipt leaves gas_weights unchanged.
C16_SuccessfulCreateFrame ==
    /\ [](\A receipt_indices \in PredecessorInputs, receiver_id \in AccountIds :
             LET out == create_receipt(action_receipts, receipt_indices,
                                       receiver_id)
                 n == Len(action_receipts)
             IN  out.kind = "Ok"
                 => /\ Len(out.receipts) = n + 1
                    /\ out.receipts[n + 1].receiver_id = receiver_id
                    /\ out.receipts[n + 1].metadata.output_data_receivers = <<>>
                    /\ out.receipts[n + 1].metadata.actions = <<>>
                    /\ \A i \in 0 .. n - 1 :
                          LET before == ReceiptAt(i)
                              after == out.receipts[i + 1]
                              had == Len(before.metadata.output_data_receivers)
                          IN  /\ after.receiver_id = before.receiver_id
                              /\ after.metadata.input_data_ids
                                     = before.metadata.input_data_ids
                              /\ after.metadata.actions = before.metadata.actions
                              /\ Len(after.metadata.output_data_receivers)
                                     = had + Occurrences(receipt_indices,
                                                 Len(receipt_indices), i)
                              /\ SubSeq(after.metadata.output_data_receivers, 1, had)
                                     = before.metadata.output_data_receivers
                    /\ receipt_indices = <<>>
                       => SubSeq(out.receipts, 1, n) = action_receipts)
    /\ [][created' # created
          => /\ gas_weights' = gas_weights
             /\ Len(action_receipts') = Len(action_receipts) + 1
             /\ result'.kind = "Ok"
             /\ result'.index = Len(action_receipts)]_vars

\* receipt 2 was created from the predecessor list [0, 1]: receipts 0 and 1
\* each gained one data receiver and receipt 1 still has no input
C16_Witness ==
    /\ result.kind = "Ok"
    /\ result.index = 2
    /\ Len(action_receipts) = 3
    /\ Len(ReceiptAt(0).metadata.output_data_receivers) = 1
    /\ Len(ReceiptAt(1).metadata.output_data_receivers) = 1
    /\ ReceiptAt(1).metadata.input_data_ids = <<>>
    /\ Len(ReceiptAt(2).metadata.input_data_ids) = 2
    /\ ReceiptAt(2).metadata.output_data_receivers = <<>>
    /\ ReceiptAt(2).metadata.actions = <<>>

\* earlier is a prefix of later
IsPrefix(earlier, later) ==
    /\ Len(earlier) <= Len(later)
    /\ SubSeq(later, 1, Len(earlier)) = earlier

\* C17: all mutation is append-only along every execution. Across any step,
\* of a successful or a failed call, the number of receipts does not
\* decrease, every existing receipt keeps its receiver_id and its
\* input_data_ids, its actions and its output_data_receivers before the step
\* are prefixes of those after it, and gas_weights before the step is a
\* prefix of gas_weights after it.
C17_AppendOnly ==
    [][/\ Len(action_receipts') >= Len(action_receipts)
       /\ \A i \in 0 .. Len(action_receipts) - 1 :
             LET before == ReceiptAt(i)
                 after == action_receipts'[i + 1]
             IN  /\ after.receiver_id = before.receiver_id
                 /\ after.metadata.input_data_ids = before.metadata.input_data_ids
                 /\ IsPrefix(before.metadata.actions, after.metadata.actions)
                 /\ IsPrefix(before.metadata.output_data_receivers,
                             after.metadata.output_data_receivers)
       /\ IsPrefix(gas_weights, gas_weights')]_vars

\* receipt 0 was registered on for "alice" and later for "bob", holds a
\* weighted function call, and is the only receipt: the earlier entries are
\* where they were put
C17_Witness ==
    /\ Len(action_receipts) = 1
    /\ Len(ReceiptAt(0).metadata.output_data_receivers) = 2
    /\ ReceiptAt(0).metadata.output_data_receivers[1].receiver_id = "alice"
    /\ ReceiptAt(0).metadata.output_data_receivers[2].receiver_id = "bob"
    /\ Len(ReceiptAt(0).metadata.actions) = 1
    /\ Len(gas_weights) = 1

\* the data receivers addressed to receiver_id, over all receipts
NumDataReceiversFor(receiver_id) ==
    Sum([i \in 1 .. Len(action_receipts) |->
            Cardinality({k \in 1 .. Len(action_receipts[i].metadata.output_data_receivers) :
                action_receipts[i].metadata.output_data_receivers[k].receiver_id
                    = receiver_id})])

\* the input data ids of the receipts whose receiver is receiver_id
NumInputDataIdsOf(receiver_id) ==
    Sum([i \in 1 .. Len(action_receipts) |->
            IF action_receipts[i].receiver_id = receiver_id
            THEN Len(action_receipts[i].metadata.input_data_ids)
            ELSE 0])

\* C18: no dangling data receivers. In every reachable state, whatever calls
\* succeeded or failed before, every DataReceiver was registered by the
\* creation of a receipt that exists and has the DataReceiver's receiver_id:
\* the data receivers over all receipts are as many as the input_data_ids
\* over all receipts, in total and for each receiving account.
C18_NoDanglingDataReceivers ==
    /\ NumDataReceivers(action_receipts) = NumInputDataIds(action_receipts)
    /\ \A receiver_id \in AccountIds :
          NumDataReceiversFor(receiver_id) = NumInputDataIdsOf(receiver_id)

\* C19: gas_weights behaves as a mapping. In every reachable state no two
\* entries have the same (receipt_index, action_index) key, and every key
\* names an action that exists: its receipt_index is below the number of
\* receipts and its action_index below that receipt's number of actions.
C19_GasWeightsIsMapping ==
    /\ \A k, l \in 1 .. Len(gas_weights) :
          gas_weights[k].index = gas_weights[l].index => k = l
    /\ \A k \in 1 .. Len(gas_weights) :
          LET key == gas_weights[k].index
          IN  /\ key.receipt_index < Len(action_receipts)
              /\ key.action_index
                     < Len(ReceiptAt(key.receipt_index).metadata.actions)

\* receipt 0 holds two function calls, both appended with weight 5: the table
\* has one entry for each, under the keys (0, 0) and (0, 1)
C19_Witness ==
    /\ Len(action_receipts) = 1
    /\ Len(ReceiptAt(0).metadata.actions) = 2
    /\ gas_weights = <<GasWeightEntry(FunctionCallActionIndex(0, 0), 5),
                       GasWeightEntry(FunctionCallActionIndex(0, 1), 5)>>

====
